---- MODULE Spec2Model ----
(***************************************************************************)
(* EntityDB_GCS: the object-storage backend of EntityDB.  The bucket is a  *)
(* map from blob names to contents; the three index relations are blobs    *)
(* under the folders "ent", "cmp" and "dat".  Entity handles are the       *)
(* in-memory Entity objects the callers hold.                              *)
(***************************************************************************)
EXTENDS Integers, Sequences, FiniteSets, TLC

\* ---------------------------------------------------------------- bounds
MaxEid == 2       \* size of the id space _random_eid draws from
MaxCid == 2       \* size of the id space _random_cid draws from
MaxVal == 1       \* field values are 0..MaxVal
MaxEntities == 1  \* Entity objects the callers hold
MaxAdds == 2      \* add_entity calls in one behaviour
MaxInclude == 2   \* required parameters of a system
MaxExclude == 1   \* excluded component types of a system
MaxComponents == 2  \* components of an Entity the caller builds
MaxRuns == 1      \* run calls that are followed statement by statement
MaxCalls == 1     \* add_entity calls that are followed statement by statement

\* ------------------------------------------------------------- constants
ENTITY_FOLDER == "ent"
COMPONENT_FOLDER == "cmp"
DATA_FOLDER == "dat"

\* An Entity that was never saved has no uid; a component never saved has
\* no _uid.  Python formats it as "None" in a blob name.
None == "None"

\* _random_eid: first character a digit.  _random_cid: first a letter.
EIDs == {ToString(i) : i \in 1..MaxEid}
CIDs == {"c" \o ToString(i) : i \in 1..MaxCid}

\* The component classes of the application: A and B carry one field "x",
\* C carries no field.
ComponentNames == {"A", "B", "C"}
FieldsOf(component_name) == IF component_name = "C" THEN {} ELSE {"x"}
Values == 0..MaxVal

VARIABLES
    bucket,             \* blob name -> content
    component_classes,  \* names of the registered component classes
    entities,           \* the Entity objects held by callers
    returned,           \* the ids add_entity returned, in call order
    system_func,        \* the parsed signature of the application's system
    last,               \* the last call: its arguments and outcome
    adding,             \* the add_entity call in progress, statement by statement
    running             \* the run call in progress, statement by statement

vars == <<bucket, component_classes, entities, returned, system_func, last,
          adding, running>>

\* ------------------------------------------------------------ sequences
Range(s) == {s[i] : i \in DOMAIN s}
IsInjective(s) == \A i, j \in DOMAIN s : s[i] = s[j] => i = j
SeqsUpTo(S, n) == UNION {[1..k -> S] : k \in 0..n}
DistinctSeqs(S, n) == {s \in SeqsUpTo(S, n) : IsInjective(s)}
SubsetsUpTo(S, n) == {X \in SUBSET S : Cardinality(X) <= n}

\* ---------------------------------------------------------------- blobs
\* f"{ENTITY_FOLDER}/{entity.uid}/{component_name}-{component._uid}"
EntityBlobName(eid, component_name, cid) ==
    <<ENTITY_FOLDER, eid, component_name, cid>>
\* f"{COMPONENT_FOLDER}/{component_name}/{entity.uid}-{component._uid}"
ComponentBlobName(component_name, eid, cid) ==
    <<COMPONENT_FOLDER, component_name, eid, cid>>
\* f"{DATA_FOLDER}/{cid}/{varname}"
DataBlobName(cid, varname) == <<DATA_FOLDER, cid, varname>>

\* upload_from_string: creates the blob or overwrites its content
Upload(b, name, content) ==
    [n \in DOMAIN b \cup {name} |-> IF n = name THEN content ELSE b[n]]

\* A field holds a number the caller assigned, or the raw bytes that
\* download_as_bytes returned when the component was loaded.
Number(v) == <<"int", v>>
Bytes(v) == <<"bytes", v>>

\* The codec: a payload and its content type.  A number is written as
\* its text, bytes are written as they are.
serialize(data) ==
    IF data[1] = "int" THEN <<Bytes(data[2]), "text/plain">>
    ELSE <<data, "application/octet-stream">>

_create_empty_blob(b, name) == Upload(b, name, "")

_create_data_blob(b, cid, varname, data) ==
    Upload(b, DataBlobName(cid, varname), serialize(data)[1])

\* list_blobs(prefix = folder/key/, delimiter = "/")
_search_blobs(b, folder, key) ==
    {n \in DOMAIN b : n[1] = folder /\ n[2] = key}

\* -------------------------------------------------------------- handles
\* A component instance: its class name, its _uid and its field values.
Component(component_name, uid, fieldvars) ==
    [name |-> component_name, _uid |-> uid, vars |-> fieldvars]

get_variables_of(component) == component.vars

\* get_components(): the loaded components, in the order the caller gave
NewComponents == DistinctSeqs(ComponentNames, MaxComponents)

\* Entity(components): no uid yet; a fresh component holds its class's
\* default field values and no _uid
Entity(names) ==
    [uid |-> None,
     components |-> [i \in DOMAIN names |->
        Component(names[i], None, [f \in FieldsOf(names[i]) |-> Number(0)])]]

\* ------------------------------------------------------------ add_entity
_register_component_type(classes, component_name) ==
    classes \cup {component_name}

\* for varname in vars: self._create_data_blob(cid, varname, vars[varname])
RECURSIVE WriteFields(_, _, _, _)
WriteFields(b, cid, fields, todo) ==
    IF todo = {} THEN b
    ELSE LET varname == CHOOSE f \in todo : TRUE
         IN  WriteFields(_create_data_blob(b, cid, varname, fields[varname]),
                         cid, fields, todo \ {varname})

\* AddComponentBlobs without its second _create_empty_blob: the component
\* is never entered under its class.
AddComponentBlobs_NoTypeIndex(b, eid, component, cid) ==
    LET b1 == _create_empty_blob(b,
                  EntityBlobName(eid, component.name, cid))
        fields == get_variables_of(component)
    IN  WriteFields(b1, cid, fields, DOMAIN fields)

\* One pass of the loop "for component in entity.get_components()" of
\* add_entity, for a component whose new id is cid: the forward-index
\* blob, the type-index blob, then the field blobs.
AddComponentBlobs(b, eid, component, cid) ==
    LET b1 == _create_empty_blob(b,
                  EntityBlobName(eid, component.name, cid))
        b2 == _create_empty_blob(b1,
                  ComponentBlobName(component.name, eid, cid))
        fields == get_variables_of(component)
    IN  WriteFields(b2, cid, fields, DOMAIN fields)

RECURSIVE AddComponents(_, _, _, _, _, _)
AddComponents(b, classes, eid, components, cids, i) ==
    IF i > Len(components) THEN [bucket |-> b, classes |-> classes]
    ELSE AddComponents(
            AddComponentBlobs(b, eid, components[i], cids[i]),
            _register_component_type(classes, components[i].name),
            eid, components, cids, i + 1)

\* add_entity(entity) with the random draws new_eid and cids: the entity
\* after the call, the bucket, the registry and the returned id.
add_entity(b, classes, entity, new_eid, cids) ==
    LET done == AddComponents(b, classes, new_eid, entity.components, cids, 1)
    IN  [entity |-> [uid |-> new_eid,
                     components |-> [i \in DOMAIN entity.components |->
                        [entity.components[i] EXCEPT !._uid = cids[i]]]],
         bucket |-> done.bucket,
         classes |-> done.classes,
         error |-> None,
         result |-> new_eid]

\* --------------------------------------------------------- update_entity
\* UpdateComponents that files the fields of a component under the name
\* of its class instead of under its _uid.
RECURSIVE UpdateComponents_KeyedByName(_, _, _)
UpdateComponents_KeyedByName(b, components, i) ==
    IF i > Len(components) THEN b
    ELSE LET fields == get_variables_of(components[i])
         IN  UpdateComponents_KeyedByName(
                WriteFields(b, components[i].name, fields, DOMAIN fields),
                components, i + 1)

RECURSIVE UpdateComponents(_, _, _)
UpdateComponents(b, components, i) ==
    IF i > Len(components) THEN b
    ELSE LET fields == get_variables_of(components[i])
         IN  UpdateComponents(
                WriteFields(b, components[i]._uid, fields, DOMAIN fields),
                components, i + 1)

update_entity(b, entity) ==
    [bucket |-> UpdateComponents(b, entity.components, 1),
     error |-> None, result |-> None]

\* --------------------------------------------------------- delete_entity
\* EntityDB.delete_entity
EntityDB_delete_entity(b, entity) ==
    [bucket |-> b, error |-> "NotImplementedError", result |-> None]

\* delete_entity without its test of entity.uid
delete_entity_Unchecked(b, entity) == EntityDB_delete_entity(b, entity)

delete_entity(b, entity) ==
    IF entity.uid = None
    THEN [bucket |-> b, error |-> "Exception", result |-> None]
    ELSE EntityDB_delete_entity(b, entity)

\* --------------------------------------------------------- count_matches
\* EntityDB.count_matches
EntityDB_count_matches(system) ==
    [error |-> "NotImplementedError", result |-> None]

count_matches(system) == EntityDB_count_matches(system)

\* ------------------------------------------------------------------- run
\* The parsed signature of a system: the classes of its required
\* parameters, in parameter order, and the classes it excludes.
System(include, exclude) ==
    [include_components |-> include, exclude_components |-> exclude]

Systems ==
    {System(include, exclude) :
        include \in DistinctSeqs(ComponentNames, MaxInclude),
        exclude \in SubsetsUpTo(ComponentNames, MaxExclude)}

\* matched_eids is None until the first required class has been searched
NoEids == [is_none |-> TRUE, eids |-> {}]
SomeEids(S) == [is_none |-> FALSE, eids |-> S]
\* "if matched_eids:" is false for None and for the empty set
Truthy(matched_eids) == ~matched_eids.is_none /\ matched_eids.eids # {}

\* eid, cid = blob.name.split("/")[-1].split("-"), over the blobs of a class
FoundComponents(b, component_name) ==
    {n[3] : n \in _search_blobs(b, COMPONENT_FOLDER, component_name)}

\* Blobs are listed in the order of their names; the last blob of an
\* entity under a class is the one whose cid stays in all_entities.
CidIndex(cid) == CHOOSE i \in 1..MaxCid : cid = "c" \o ToString(i)
LastCid(b, component_name, eid) ==
    LET cs == {n[4] : n \in {m \in _search_blobs(b, COMPONENT_FOLDER,
                                                 component_name) : m[3] = eid}}
    IN  CHOOSE c \in cs : \A d \in cs : CidIndex(d) <= CidIndex(c)

\* all_entities after the loop over the required classes: per found eid,
\* the class names (in parameter order) and their cids
AllEntities(b, include) ==
    LET eids == UNION {FoundComponents(b, include[i]) : i \in DOMAIN include}
        Has(eid, component_name) == eid \in FoundComponents(b, component_name)
    IN  [eid \in eids |->
            LET names == SelectSeq(include, LAMBDA n : Has(eid, n))
            IN  [i \in DOMAIN names |->
                    [name |-> names[i], cid |-> LastCid(b, names[i], eid)]]]

\* The loop "for var_name in system.include_components", from position i
RECURSIVE MatchInclude(_, _, _, _)
MatchInclude(b, include, i, matched_eids) ==
    IF i > Len(include) THEN matched_eids
    ELSE LET found_components == FoundComponents(b, include[i])
         IN  MatchInclude(b, include, i + 1,
                IF Truthy(matched_eids)
                THEN SomeEids(matched_eids.eids \cap found_components)
                ELSE SomeEids(found_components))

ExcludeEids(b, exclude) ==
    UNION {FoundComponents(b, component_name) : component_name \in exclude}

\* The matching part of run: matched_entities, or the TypeError that
\* "matched_eids -= ..." and "for eid in matched_eids" raise on None.
MatchedEntities(b, system) ==
    LET matched_eids == MatchInclude(b, system.include_components, 1, NoEids)
        all_entities == AllEntities(b, system.include_components)
    IN  IF matched_eids.is_none
        THEN [error |-> "TypeError", matched_entities |-> <<>>]
        ELSE [error |-> None,
              matched_entities |->
                [eid \in matched_eids.eids
                        \ ExcludeEids(b, system.exclude_components) |->
                    all_entities[eid]]]

\* --------------------------------------------------------- materializing
PRIMARY_KEY == "_uid"
ENTITY_REFERENCE == "_entity"

\* EntityDB._create_component_from_data, called with the cid the new
\* component carries.  The class's constructor rejects a keyword that is
\* not one of its fields and fills a missing field with its default.
\* component_values: the keyword arguments the constructor is called
\* with, the data less the keys "_uid" and "_entity"
component_values(component_data) ==
    [varname \in DOMAIN component_data \ {PRIMARY_KEY, ENTITY_REFERENCE} |->
        component_data[varname]]

_create_component_from_data(component_type, component_data, cid) ==
    LET names == DOMAIN component_values(component_data)
    IN  IF names \subseteq FieldsOf(component_type)
        THEN [error |-> None,
              component |-> Component(component_type, cid,
                  [f \in FieldsOf(component_type) |->
                      IF f \in names THEN component_data[f] ELSE Number(0)])]
        ELSE [error |-> "TypeError",
              component |-> Component(component_type, cid, <<>>)]

\* One pass of the loop of _load_entity_from_cids
LoadComponent(b, classes, comp_name, cid) ==
    LET blobs == _search_blobs(b, DATA_FOLDER, cid)
        component_data == [varname \in {n[3] : n \in blobs} |->
                              b[DataBlobName(cid, varname)]]
    IN  IF comp_name \notin classes
        THEN [error |-> "KeyError",
              component |-> Component(comp_name, cid, <<>>)]
        ELSE _create_component_from_data(comp_name, component_data, cid)

\* components: the sequence of (name, cid) of one matched entity
_load_entity_from_cids(b, classes, eid, components) ==
    LET loaded == [i \in DOMAIN components |->
                      LoadComponent(b, classes, components[i].name,
                                    components[i].cid)]
        failed == {i \in DOMAIN components : loaded[i].error # None}
    IN  [error |-> IF failed = {} THEN None
                   ELSE loaded[CHOOSE i \in failed :
                                  \A j \in failed : i <= j].error,
         entity |-> [uid |-> eid,
                     components |-> [i \in DOMAIN components |->
                                        loaded[i].component]]]

\* run(system_func): the matching, then every matched entity loaded
run(b, classes, system) ==
    LET m == MatchedEntities(b, system)
    IN  [error |-> m.error,
         matched_entities |-> m.matched_entities,
         loaded |-> [eid \in DOMAIN m.matched_entities |->
                        _load_entity_from_cids(b, classes, eid,
                                               m.matched_entities[eid])]]

\* ----------------------------------------------------------------- state
\* Systems over one component class
OneClassSystems ==
    {s \in Systems : Len(s.include_components) = 1
                     /\ s.exclude_components = {}}

\* No add_entity call in progress, no run call in progress; calls: how
\* many were begun.
NotAdding(calls) == [pc |-> "idle", calls |-> calls]
NotRunning(calls) == [pc |-> "idle", calls |-> calls]

\* An empty bucket, no Entity built yet, no call in progress, and the
\* system the application defines.
InitStore ==
    /\ bucket = <<>>
    /\ component_classes = {}
    /\ entities = <<>>
    /\ returned = <<>>
    /\ last = [op |-> "none"]
    /\ adding = NotAdding(0)
    /\ running = NotRunning(0)

\* The caller builds an Entity in memory.
CreateEntity(names) ==
    /\ Len(entities) < MaxEntities
    /\ entities' = Append(entities, Entity(names))
    /\ last' = [op |-> "Entity"]
    /\ UNCHANGED <<bucket, component_classes, returned, system_func,
                 adding, running>>

\* The caller assigns a field of a loaded component.
SetField(h, i, f, v) ==
    /\ i \in DOMAIN entities[h].components
    /\ f \in DOMAIN entities[h].components[i].vars
    /\ entities[h].components[i].vars[f] # Number(v)
    /\ entities' = [entities EXCEPT ![h].components[i].vars[f] = Number(v)]
    /\ last' = [op |-> "setattr"]
    /\ UNCHANGED <<bucket, component_classes, returned, system_func,
                 adding, running>>

AddEntity(h, new_eid, cids) ==
    /\ Len(returned) < MaxAdds
    /\ \E r \in {add_entity(bucket, component_classes, entities[h],
                           new_eid, cids)} :
           /\ entities' = [entities EXCEPT ![h] = r.entity]
           /\ bucket' = r.bucket
           /\ component_classes' = r.classes
           /\ returned' = Append(returned, r.result)
           /\ last' = [op |-> "add_entity", uid |-> entities[h].uid,
                       error |-> r.error, result |-> r.result]
    /\ UNCHANGED <<system_func, adding, running>>

\* new_entity(components): add_entity on an Entity the caller does not keep
NewEntity(names, new_eid, cids) ==
    /\ Len(returned) < MaxAdds
    /\ \E r \in {add_entity(bucket, component_classes, Entity(names),
                           new_eid, cids)} :
           /\ bucket' = r.bucket
           /\ component_classes' = r.classes
           /\ returned' = Append(returned, r.result)
           /\ last' = [op |-> "add_entity", uid |-> None,
                       error |-> r.error, result |-> r.result]
    /\ UNCHANGED <<entities, system_func, adding, running>>

\* update_entity is documented for an entity that has already been saved
UpdateEntity(h) ==
    /\ entities[h].uid # None
    /\ \E r \in {update_entity(bucket, entities[h])} :
           /\ bucket' = r.bucket
           /\ last' = [op |-> "update_entity", uid |-> entities[h].uid,
                       error |-> r.error, result |-> r.result]
    /\ UNCHANGED <<component_classes, entities, returned, system_func,
                 adding, running>>

DeleteEntity(h) ==
    /\ \E r \in {delete_entity(bucket, entities[h])} :
           /\ bucket' = r.bucket
           /\ last' = [op |-> "delete_entity", uid |-> entities[h].uid,
                       error |-> r.error, result |-> r.result]
    /\ UNCHANGED <<component_classes, entities, returned, system_func,
                 adding, running>>

CountMatches ==
    /\ \E r \in {count_matches(system_func)} :
          last' = [op |-> "count_matches", error |-> r.error,
                   result |-> r.result]
    /\ UNCHANGED <<bucket, component_classes, entities, returned, system_func,
                 adding, running>>

\* run(system_func).  _run_on_entities loads the matched entities one by
\* one (in the set's order, which is not fixed) and invokes the system on
\* each; the first load that fails ends the run.  invocations: how many
\* were invoked.  keep: the entity the system hands to its caller, if any.
Run(invocations, keep) ==
    \E r \in {run(bucket, component_classes, system_func)} :
    \E failed \in {{eid \in DOMAIN r.matched_entities :
                        r.loaded[eid].error # None}} :
    LET eids == DOMAIN r.matched_entities
    IN  /\ IF r.error # None THEN invocations = 0
           ELSE IF failed = {} THEN invocations = Cardinality(eids)
           ELSE invocations <= Cardinality(eids \ failed)
        /\ keep # None =>
              /\ keep \in eids \ failed
              /\ invocations > 0
              /\ Len(entities) < MaxEntities
        /\ entities' = IF keep = None THEN entities
                       ELSE Append(entities, r.loaded[keep].entity)
        /\ last' = [op |-> "run",
                    error |-> IF r.error # None THEN r.error
                              ELSE IF failed = {} THEN None
                              ELSE r.loaded[CHOOSE eid \in failed : TRUE].error,
                    matched_entities |-> r.matched_entities,
                    invocations |-> invocations]
        /\ UNCHANGED <<bucket, component_classes, returned, system_func,
                 adding, running>>

\* The life of an Entity the caller holds: built, changed, added,
\* updated, deleted, beside entities that new_entity added.  No system
\* runs.
Init == InitStore /\ system_func = System(<<>>, {})

Next ==
    \/ \E names \in NewComponents : CreateEntity(names)
    \/ \E h \in DOMAIN entities, i \in 1..MaxComponents, v \in Values :
          SetField(h, i, "x", v)
    \/ \E h \in DOMAIN entities, new_eid \in EIDs :
          \E cids \in [DOMAIN entities[h].components -> CIDs] :
             AddEntity(h, new_eid, cids)
    \/ \E names \in NewComponents, new_eid \in EIDs :
          \E cids \in [DOMAIN names -> CIDs] : NewEntity(names, new_eid, cids)
    \/ \E h \in DOMAIN entities : UpdateEntity(h)
    \/ \E h \in DOMAIN entities : DeleteEntity(h)

Spec == Init /\ [][Next]_vars

\* Systems run and counted over the entities that new_entity added.
InitQuery == InitStore /\ system_func \in Systems

NextQuery ==
    \/ \E names \in NewComponents, new_eid \in EIDs :
          \E cids \in [DOMAIN names -> CIDs] : NewEntity(names, new_eid, cids)
    \/ \E n \in 0..MaxEid : Run(n, None)
    \/ CountMatches

SpecQuery == InitQuery /\ [][NextQuery]_vars

\* Entities that new_entity added are loaded again by a system over one
\* component class, which hands one to its caller; the caller changes and
\* updates it.
InitLoaded == InitStore /\ system_func \in OneClassSystems

NextLoaded ==
    \/ \E names \in NewComponents, new_eid \in EIDs :
          \E cids \in [DOMAIN names -> CIDs] : NewEntity(names, new_eid, cids)
    \/ \E n \in 0..MaxEid, keep \in EIDs \cup {None} : Run(n, keep)
    \/ \E h \in DOMAIN entities, i \in 1..MaxComponents, v \in Values :
          SetField(h, i, "x", v)
    \/ \E h \in DOMAIN entities : UpdateEntity(h)

SpecLoaded == InitLoaded /\ [][NextLoaded]_vars

\* EntityDB_GCS(bucket_name) on the bucket in use: another store instance,
\* whose registry is empty, takes the place of the one that wrote.
OpenStore ==
    /\ component_classes # {}
    /\ component_classes' = {}
    /\ last' = [op |-> "EntityDB_GCS"]
    /\ UNCHANGED <<bucket, entities, returned, system_func, adding, running>>

\* Systems that exclude nothing run over entities that this store
\* instance or an earlier one on the same bucket added.
InitInstances ==
    InitStore /\ system_func \in {s \in Systems : s.exclude_components = {}}

NextInstances ==
    \/ \E names \in NewComponents, new_eid \in EIDs :
          \E cids \in [DOMAIN names -> CIDs] : NewEntity(names, new_eid, cids)
    \/ OpenStore
    \/ \E n \in 0..MaxEid : Run(n, None)

SpecInstances == InitInstances /\ [][NextInstances]_vars

\* The field data of a component as read from the field store: any of
\* the keys, each with the bytes of a blob.
DataKeys == {"x", "y", PRIMARY_KEY, ENTITY_REFERENCE}
ComponentData ==
    UNION {[keys -> {Bytes(v) : v \in Values}] : keys \in SUBSET DataKeys}

\* _create_component_from_data on the data that was read
CreateComponent ==
    /\ last.op = "data"
    /\ \E r \in {_create_component_from_data(last.component_type,
                                             last.component_data, last.cid)} :
          last' = [op |-> "_create_component_from_data",
                   component_type |-> last.component_type,
                   component_data |-> last.component_data,
                   component_values |-> component_values(last.component_data),
                   error |-> r.error,
                   component |-> r.component]
    /\ UNCHANGED <<bucket, component_classes, entities, returned, system_func,
                   adding, running>>

\* A component of every class is constructed from every field data.
InitCreate ==
    /\ bucket = <<>>
    /\ component_classes = ComponentNames
    /\ entities = <<>>
    /\ returned = <<>>
    /\ system_func = System(<<>>, {})
    /\ adding = NotAdding(0)
    /\ running = NotRunning(0)
    /\ \E component_type \in ComponentNames, cid \in CIDs :
       \E component_data \in ComponentData :
          last = [op |-> "data", component_type |-> component_type,
                  component_data |-> component_data, cid |-> cid]

NextCreate == CreateComponent

SpecCreate == InitCreate /\ [][NextCreate]_vars

\* ------------------------------------------------- the index relations
\* Relation 1, the forward index: the (entity, type, cid) of the blobs
\* under "ent"
ForwardIndex(b) ==
    {<<n[2], n[3], n[4]>> : n \in {m \in DOMAIN b : m[1] = ENTITY_FOLDER}}
\* Relation 2, the type index: the (entity, type, cid) of the blobs under
\* "cmp"
TypeIndex(b) ==
    {<<n[3], n[2], n[4]>> : n \in {m \in DOMAIN b : m[1] = COMPONENT_FOLDER}}
\* Relation 3, the field store: the blobs under "dat" with their contents
FieldStore(b) ==
    {<<n[2], n[3], b[n]>> : n \in {m \in DOMAIN b : m[1] = DATA_FOLDER}}

\* ------------------------------------------- add_entity, by statements
\* AddWrite with the two empty blobs in the other order: the type-index
\* blob first.
AddWrite_TypeFirst(b, pc, eid, component, varname) ==
    IF pc = "ent"
    THEN _create_empty_blob(b,
             ComponentBlobName(component.name, eid, component._uid))
    ELSE IF pc = "cmp"
    THEN _create_empty_blob(b,
             EntityBlobName(eid, component.name, component._uid))
    ELSE _create_data_blob(b, component._uid, varname,
                           get_variables_of(component)[varname])

\* The backend write add_entity issues for a component at position pc:
\* the forward-index blob at "ent", the type-index blob at "cmp", the
\* blob of the field varname at "dat".
AddWrite(b, pc, eid, component, varname) ==
    IF pc = "ent"
    THEN _create_empty_blob(b,
             EntityBlobName(eid, component.name, component._uid))
    ELSE IF pc = "cmp"
    THEN _create_empty_blob(b,
             ComponentBlobName(component.name, eid, component._uid))
    ELSE _create_data_blob(b, component._uid, varname,
                           get_variables_of(component)[varname])

\* The end of one pass of "for component in entity.get_components()":
\* the next component, or "return new_eid".
AfterComponent(a) ==
    IF a.i < Len(a.entity.components)
    THEN [a EXCEPT !.pc = "ent", !.i = a.i + 1, !.todo = {}]
    ELSE [a EXCEPT !.pc = "return", !.todo = {}]

\* new_eid = self._random_eid(); entity.uid = new_eid
AddBegin(names, new_eid) ==
    /\ adding.pc = "idle"
    /\ adding.calls < MaxCalls
    /\ Len(returned) < MaxAdds
    /\ adding' = [pc |-> IF names = <<>> THEN "return" ELSE "ent",
                  calls |-> adding.calls + 1,
                  entity |-> [Entity(names) EXCEPT !.uid = new_eid],
                  i |-> 1,
                  todo |-> {}]
    /\ UNCHANGED <<bucket, component_classes, entities, returned,
                   system_func, last, running>>

\* The class is registered, the component gets its _uid, the
\* forward-index blob is written.
AddForward(cid) ==
    /\ adding.pc = "ent"
    /\ LET component == [adding.entity.components[adding.i]
                            EXCEPT !._uid = cid]
       IN  /\ component_classes' =
                 _register_component_type(component_classes, component.name)
           /\ bucket' = AddWrite(bucket, "ent", adding.entity.uid,
                                 component, None)
           /\ adding' = [adding EXCEPT
                            !.pc = "cmp",
                            !.entity.components[adding.i] = component]
    /\ UNCHANGED <<entities, returned, system_func, last, running>>

\* The type-index blob is written.
AddType ==
    /\ adding.pc = "cmp"
    /\ LET component == adding.entity.components[adding.i]
           vars_ == get_variables_of(component)
       IN  /\ bucket' = AddWrite(bucket, "cmp", adding.entity.uid,
                                 component, None)
           /\ adding' = IF DOMAIN vars_ = {} THEN AfterComponent(adding)
                        ELSE [adding EXCEPT !.pc = "dat",
                                            !.todo = DOMAIN vars_]
    /\ UNCHANGED <<component_classes, entities, returned, system_func,
                   last, running>>

\* One pass of "for varname in vars": one field blob is written.
AddField(varname) ==
    /\ adding.pc = "dat"
    /\ varname \in adding.todo
    /\ bucket' = AddWrite(bucket, "dat", adding.entity.uid,
                          adding.entity.components[adding.i], varname)
    /\ adding' = IF adding.todo = {varname} THEN AfterComponent(adding)
                 ELSE [adding EXCEPT !.todo = adding.todo \ {varname}]
    /\ UNCHANGED <<component_classes, entities, returned, system_func,
                   last, running>>

\* return new_eid
AddReturn ==
    /\ adding.pc = "return"
    /\ returned' = Append(returned, adding.entity.uid)
    /\ last' = [op |-> "add_entity", uid |-> None,
                error |-> None, result |-> adding.entity.uid]
    /\ adding' = NotAdding(adding.calls)
    /\ UNCHANGED <<bucket, component_classes, entities, system_func, running>>

\* The process that adds stops between two statements of add_entity.
AddCrash ==
    /\ adding.pc # "idle"
    /\ adding' = NotAdding(adding.calls)
    /\ UNCHANGED <<bucket, component_classes, entities, returned,
                   system_func, last, running>>

\* -------------------------------------------------- run, by statements
\* system = self._parse_system(system_func); matched_eids = None;
\* all_entities = dict().  reads: the prefixes listed so far, in order.
\* start: the type index as it was when the call began.
RunBegin ==
    /\ running.pc = "idle"
    /\ running.calls < MaxRuns
    /\ running' = [pc |-> IF system_func.include_components = <<>>
                          THEN "exclude" ELSE "include",
                   calls |-> running.calls + 1,
                   i |-> 1,
                   matched_eids |-> NoEids,
                   all_entities |-> <<>>,
                   exclude |-> system_func.exclude_components,
                   matched_entities |-> <<>>,
                   todo |-> {},
                   invocations |-> 0,
                   reads |-> <<>>,
                   start |-> TypeIndex(bucket),
                   error |-> None]
    /\ UNCHANGED <<bucket, component_classes, entities, returned,
                   system_func, last, adding>>

\* IncludePass that joins the eids found for the class to matched_eids
\* instead of intersecting.
IncludePass_Union(b, component_name, matched_eids, all_entities) ==
    LET found_components == FoundComponents(b, component_name)
        eids == DOMAIN all_entities \cup found_components
    IN  [all_entities |->
            [eid \in eids |->
                IF eid \in found_components
                THEN Append(IF eid \in DOMAIN all_entities
                            THEN all_entities[eid] ELSE <<>>,
                            [name |-> component_name,
                             cid |-> LastCid(b, component_name, eid)])
                ELSE all_entities[eid]],
         matched_eids |-> SomeEids(matched_eids.eids \cup found_components)]

\* One pass of "for var_name in system.include_components" over the
\* listing of the class's blobs: all_entities and matched_eids after it.
IncludePass(b, component_name, matched_eids, all_entities) ==
    LET found_components == FoundComponents(b, component_name)
        eids == DOMAIN all_entities \cup found_components
    IN  [all_entities |->
            [eid \in eids |->
                IF eid \in found_components
                THEN Append(IF eid \in DOMAIN all_entities
                            THEN all_entities[eid] ELSE <<>>,
                            [name |-> component_name,
                             cid |-> LastCid(b, component_name, eid)])
                ELSE all_entities[eid]],
         matched_eids |->
            IF Truthy(matched_eids)
            THEN SomeEids(matched_eids.eids \cap found_components)
            ELSE SomeEids(found_components)]

\* RunInclude that also lists the field blobs of every component it
\* finds for the class
RunInclude_ReadsFields ==
    /\ running.pc = "include"
    /\ LET component_name == system_func.include_components[running.i]
           pass == IncludePass(bucket, component_name,
                               running.matched_eids, running.all_entities)
           cids == {n[4] : n \in _search_blobs(bucket, COMPONENT_FOLDER,
                                               component_name)}
       IN  running' = [running EXCEPT
              !.pc = IF running.i < Len(system_func.include_components)
                     THEN "include" ELSE "exclude",
              !.i = running.i + 1,
              !.matched_eids = pass.matched_eids,
              !.all_entities = pass.all_entities,
              !.reads = Append(running.reads,
                               <<COMPONENT_FOLDER, component_name>>)
                        \o IF cids = {} THEN <<>>
                           ELSE <<<<DATA_FOLDER, CHOOSE c \in cids : TRUE>>>>]
    /\ UNCHANGED <<bucket, component_classes, entities, returned,
                   system_func, last, adding>>

RunInclude ==
    /\ running.pc = "include"
    /\ LET component_name == system_func.include_components[running.i]
           pass == IncludePass(bucket, component_name,
                               running.matched_eids, running.all_entities)
       IN  running' = [running EXCEPT
              !.pc = IF running.i < Len(system_func.include_components)
                     THEN "include" ELSE "exclude",
              !.i = running.i + 1,
              !.matched_eids = pass.matched_eids,
              !.all_entities = pass.all_entities,
              !.reads = Append(running.reads,
                               <<COMPONENT_FOLDER, component_name>>)]
    /\ UNCHANGED <<bucket, component_classes, entities, returned,
                   system_func, last, adding>>

\* One pass of "for component in system.exclude_components"; on None,
\* "matched_eids -= exclude_eids" raises TypeError.
RunExclude(component_name) ==
    /\ running.pc = "exclude"
    /\ component_name \in running.exclude
    /\ running' =
          [running EXCEPT
              !.pc = IF running.matched_eids.is_none THEN "raised"
                     ELSE "exclude",
              !.error = IF running.matched_eids.is_none THEN "TypeError"
                        ELSE None,
              !.matched_eids =
                  IF running.matched_eids.is_none THEN NoEids
                  ELSE SomeEids(running.matched_eids.eids
                                  \ FoundComponents(bucket, component_name)),
              !.exclude = running.exclude \ {component_name},
              !.reads = Append(running.reads,
                               <<COMPONENT_FOLDER, component_name>>)]
    /\ UNCHANGED <<bucket, component_classes, entities, returned,
                   system_func, last, adding>>

\* RunMatched without waiting for the exclude loop to end
RunMatched_BeforeExclude ==
    /\ running.pc = "exclude"
    /\ running' =
          IF running.matched_eids.is_none
          THEN [running EXCEPT !.pc = "raised", !.error = "TypeError"]
          ELSE [running EXCEPT
                   !.pc = "load",
                   !.matched_entities =
                       [eid \in running.matched_eids.eids |->
                           running.all_entities[eid]],
                   !.todo = running.matched_eids.eids]
    /\ UNCHANGED <<bucket, component_classes, entities, returned,
                   system_func, last, adding>>

\* "for eid in matched_eids: matched_entities[eid] = all_entities[eid]";
\* on None the loop raises TypeError.
RunMatched ==
    /\ running.pc = "exclude"
    /\ running.exclude = {}
    /\ running' =
          IF running.matched_eids.is_none
          THEN [running EXCEPT !.pc = "raised", !.error = "TypeError"]
          ELSE [running EXCEPT
                   !.pc = "load",
                   !.matched_entities =
                       [eid \in running.matched_eids.eids |->
                           running.all_entities[eid]],
                   !.todo = running.matched_eids.eids]
    /\ UNCHANGED <<bucket, component_classes, entities, returned,
                   system_func, last, adding>>

\* _run_on_entities, one matched entity: _load_entity_from_cids lists and
\* downloads the field blobs of its components one after the other, up
\* to the first that fails, and the system is invoked on the entity.
RunLoad(eid) ==
    /\ running.pc = "load"
    /\ eid \in running.todo
    /\ LET components == running.matched_entities[eid]
           failed == {i \in DOMAIN components :
                        LoadComponent(bucket, component_classes,
                                      components[i].name,
                                      components[i].cid).error # None}
           n == IF failed = {} THEN Len(components)
                ELSE CHOOSE i \in failed : \A j \in failed : i <= j
           result == _load_entity_from_cids(bucket, component_classes,
                                            eid, components)
       IN  running' =
              [running EXCEPT
                  !.pc = IF result.error # None THEN "raised" ELSE "load",
                  !.error = result.error,
                  !.todo = running.todo \ {eid},
                  !.invocations = IF result.error # None
                                  THEN running.invocations
                                  ELSE running.invocations + 1,
                  !.reads = running.reads \o
                               [i \in 1..n |->
                                   <<DATA_FOLDER, components[i].cid>>]]
    /\ UNCHANGED <<bucket, component_classes, entities, returned,
                   system_func, last, adding>>

\* run returns, or the error it raised reaches the caller.
RunEnd ==
    /\ \/ running.pc = "raised"
       \/ running.pc = "load" /\ running.todo = {}
    /\ last' = [op |-> "run", error |-> running.error,
                matched_entities |-> running.matched_entities,
                invocations |-> running.invocations]
    /\ running' = NotRunning(running.calls)
    /\ UNCHANGED <<bucket, component_classes, entities, returned,
                   system_func, adding>>

\* One process adds entities while another runs the system, each a
\* statement at a time.
InitSteps == InitStore /\ system_func \in Systems

AddStep ==
    \/ \E names \in NewComponents, new_eid \in EIDs : AddBegin(names, new_eid)
    \/ \E cid \in CIDs : AddForward(cid)
    \/ AddType
    \/ AddField("x")
    \/ AddReturn
    \/ AddCrash

RunStep ==
    \/ RunBegin
    \/ RunInclude
    \/ \E component_name \in ComponentNames : RunExclude(component_name)
    \/ RunMatched
    \/ \E eid \in EIDs : RunLoad(eid)
    \/ RunEnd

NextSteps == AddStep \/ RunStep

SpecSteps == InitSteps /\ [][NextSteps]_vars

ForwardEids(b) == {t[1] : t \in ForwardIndex(b)}
HasType(b, eid, component_name) ==
    \E t \in TypeIndex(b) : t[1] = eid /\ t[2] = component_name
HasEvery(b, eid, names) == \A T \in names : HasType(b, eid, T)
HasSome(b, eid, names) == \E T \in names : HasType(b, eid, T)
KnownEids(b) == ForwardEids(b) \cup {t[1] : t \in TypeIndex(b)}

Required == Range(system_func.include_components)
Excluded == system_func.exclude_components
Matched == DOMAIN last.matched_entities

\* ---------------------------------------------------------------- claims
\* C1: after a run of a system with a non-empty required set R (and no
\* excluded type), the matched entity ids are exactly the entities that
\* have a type-index entry for every type of R.
C1_MatchedIsRequiredIntersection ==
    (last.op = "run" /\ Required # {} /\ Excluded = {})
        => Matched = {eid \in KnownEids(bucket) :
                         HasEvery(bucket, eid, Required)}

\* C2: after a run of a system with excluded types X, no matched entity
\* has a type-index entry for a type of X, and every entity that has all
\* the required types and no type of X is matched.
C2_ExcludedAreRemoved ==
    (last.op = "run" /\ Excluded # {})
        => /\ \A eid \in Matched : ~HasSome(bucket, eid, Excluded)
           /\ \A eid \in KnownEids(bucket) :
                 (HasEvery(bucket, eid, Required)
                     /\ ~HasSome(bucket, eid, Excluded)) => eid \in Matched

\* C3: a run of a system with no required type completes without error,
\* and its matched set is every entity id of the forward index less the
\* entities of the excluded types.
C3_NoRequiredMatchesAll ==
    (last.op = "run" /\ Required = {})
        => /\ last.error = None
           /\ Matched = {eid \in ForwardEids(bucket) :
                            ~HasSome(bucket, eid, Excluded)}

\* C4: count_matches(f) returns the number of entities that run(f)
\* matches, and so invokes f on, in the same index state.
C4_CountIsInvocations ==
    last.op = "count_matches"
        => /\ last.error = None
           /\ last.result = Cardinality(DOMAIN
                 run(bucket, component_classes, system_func).matched_entities)

\* C5: the id an add_entity call returns is none of the ids of the
\* forward index and none of the ids returned before.
C5_ReturnedEidIsUnseen ==
    [][returned' # returned
          => last'.result \notin (Range(returned) \cup ForwardEids(bucket))]_vars

\* C6: add_entity on an Entity that already carries an id fails with an
\* AlreadyPersistedError and changes neither the Entity's id nor the
\* index relations.
C6_AddPersistedFails ==
    [][(returned' # returned /\ last'.uid # None)
          => /\ last'.error = "AlreadyPersistedError"
             /\ bucket' = bucket
             /\ \A h \in DOMAIN entities : entities'[h].uid = entities[h].uid]_vars

\* C7 as claimed: the forward index and the type index hold the same
\* (entity, type, cid) triples, and every cid of a triple has an entry in
\* the field store, also the cid of a component without fields.
C7_IndexesConsistent ==
    /\ ForwardIndex(bucket) = TypeIndex(bucket)
    /\ \A t \in ForwardIndex(bucket) :
          \E d \in FieldStore(bucket) : d[1] = t[3]

\* C7 as amended: the forward index and the type index hold the same
\* triples, and every cid of a triple whose class declares a field has an
\* entry in the field store.
C7_IndexesConsistentWithFields ==
    /\ ForwardIndex(bucket) = TypeIndex(bucket)
    /\ \A t \in ForwardIndex(bucket) :
          FieldsOf(t[2]) # {} => \E d \in FieldStore(bucket) : d[1] = t[3]

\* an update has run over an index that holds a component with a field
\* and a component without one
C7_Witness ==
    /\ last.op = "update_entity"
    /\ \E t \in ForwardIndex(bucket) : FieldsOf(t[2]) = {}
    /\ \E t \in ForwardIndex(bucket) : FieldsOf(t[2]) # {}

\* The components persisted for the entity of a handle and not loaded in
\* the handle, as triples of the forward index.
Unloaded(b, entity) ==
    {t \in ForwardIndex(b) :
        /\ t[1] = entity.uid
        /\ \A i \in DOMAIN entity.components :
              entity.components[i].name # t[2]}

C9_DeleteRemovesEntity ==
    [][\A h \in DOMAIN entities :
          (DeleteEntity(h) /\ entities[h].uid # None) =>
             /\ last'.error = None
             /\ \A t \in ForwardIndex(bucket) \cup TypeIndex(bucket) :
                   t[1] = entities[h].uid =>
                      /\ t \notin ForwardIndex(bucket') \cup TypeIndex(bucket')
                      /\ \A d \in FieldStore(bucket') : d[1] # t[3]
             /\ \A s \in Systems :
                   entities[h].uid \notin
                      DOMAIN MatchedEntities(bucket', s).matched_entities]_vars

\* C10: delete_entity on an Entity without an id raises its error before
\* any write: the index relations are as they were.
C10_DeleteUnsavedFails ==
    [][\A h \in DOMAIN entities :
          (DeleteEntity(h) /\ entities[h].uid = None) =>
             /\ last'.error = "Exception"
             /\ bucket' = bucket]_vars

\* delete_entity has raised on an Entity without an id while the index
\* holds entities
C10_Witness ==
    /\ last.op = "delete_entity"
    /\ last.uid = None
    /\ last.error = "Exception"
    /\ ForwardIndex(bucket) # {}

\* C11: after a run of a system that requires a class the registry of
\* the store has never seen, the matched set is empty and the run raised
\* no error, whatever the index holds.
C11_UnregisteredMatchesNothing ==
    (last.op = "run" /\ \E T \in Required : T \notin component_classes)
        => /\ Matched = {}
           /\ last.error = None

\* C12: the matching of run is a function of the system and of the type
\* index alone, and writes nothing: a run whose matching is over, on a
\* type index that is as it was when the run began, holds the matched
\* eids and the cid map that the matching gives for this index (or has
\* raised the error the matching raises for it), and no statement of run
\* changes the bucket.  Hence two runs over an unchanged index match the
\* same.
C12_MatchingIsFunctionOfIndex ==
    /\ []((/\ running.pc \in {"load", "raised"}
            /\ TypeIndex(bucket) = running.start)
           => LET m == MatchedEntities(bucket, system_func)
              IN  IF running.matched_eids.is_none
                  THEN m.error = running.error
                  ELSE /\ m.error = None
                       /\ running.matched_entities = m.matched_entities)
    /\ [][RunStep => bucket' = bucket]_vars

\* The matching of a run over two required classes is over, the type
\* index is as it was when the run began, and an entity is matched.
C12_Witness ==
    /\ running.pc = "load"
    /\ TypeIndex(bucket) = running.start
    /\ Len(system_func.include_components) = 2
    /\ DOMAIN running.matched_entities # {}

\* C13: every cid of the forward index and of the type index belongs to
\* one entity and one class only: no two triples share a cid.
C13_CidHasOneOwner ==
    \A t, u \in ForwardIndex(bucket) \cup TypeIndex(bucket) :
        t[3] = u[3] => t = u

\* The blobs that are new in bucket c or hold another content than in b
Written(b, c) ==
    {n \in DOMAIN c : n \notin DOMAIN b \/ c[n] # b[n]}

\* C14: update_entity writes field-store blobs only, each under the cid
\* of a component loaded in the handle; the forward index and the type
\* index stay as they were and no component of the handle gets another
\* cid.
C14_UpdateWritesLoadedFieldsOnly ==
    [][\A h \in DOMAIN entities :
          UpdateEntity(h) =>
             /\ \A n \in Written(bucket, bucket') :
                   /\ n[1] = DATA_FOLDER
                   /\ \E i \in DOMAIN entities[h].components :
                         n[2] = entities[h].components[i]._uid
             /\ ForwardIndex(bucket') = ForwardIndex(bucket)
             /\ TypeIndex(bucket') = TypeIndex(bucket)
             /\ entities' = entities]_vars

\* update_entity has run on a handle that has a component loaded and
\* another not, and the field store holds a value the caller assigned.
C14_Witness ==
    /\ last.op = "update_entity"
    /\ \E h \in DOMAIN entities : Unloaded(bucket, entities[h]) # {}
    /\ \E d \in FieldStore(bucket) : d[3] = Bytes(1)

\* C15: after a run, the cid map of every matched entity has one entry
\* for each required class and for no other class, and each entry names
\* a cid that the type index records for the entity under the class.
C15_CidMapCoversRequired ==
    last.op = "run"
        => \A eid \in Matched :
              LET components == last.matched_entities[eid]
              IN  /\ {components[i].name : i \in DOMAIN components} = Required
                  /\ Len(components) = Cardinality(Required)
                  /\ \A i \in DOMAIN components :
                        <<eid, components[i].name, components[i].cid>>
                            \in TypeIndex(bucket)

\* The run in progress has begun to load the matched entities.
Materializing ==
    \/ running.pc = "load"
    \/ running.invocations > 0
    \/ \E k \in DOMAIN running.reads : running.reads[k][1] = DATA_FOLDER

\* C16: once a run loads an entity or has invoked the system, it has
\* listed the type index for every required class, in parameter order,
\* and then for every excluded class, and all its later reads are of the
\* field store; a run that raised while matching has read no field and
\* has invoked the system zero times.
C16_MatchingBeforeInvocation ==
    /\ (running.pc # "idle" /\ Materializing) =>
          LET include == system_func.include_components
              n == Len(include)
              x == Cardinality(Excluded)
          IN  /\ Len(running.reads) >= n + x
              /\ \A k \in 1..n :
                    running.reads[k] = <<COMPONENT_FOLDER, include[k]>>
              /\ {running.reads[k] : k \in (n + 1)..(n + x)}
                    = {<<COMPONENT_FOLDER, T>> : T \in Excluded}
              /\ \A k \in (n + x + 1)..Len(running.reads) :
                    running.reads[k][1] = DATA_FOLDER
    /\ (running.pc = "raised" /\ running.matched_eids.is_none) =>
          /\ running.invocations = 0
          /\ \A k \in DOMAIN running.reads :
                running.reads[k][1] = COMPONENT_FOLDER
    /\ (last.op = "run" /\ last.error = "TypeError") => last.invocations = 0

\* A run of a system with two required classes and an excluded class has
\* invoked the system on an entity.
C16_Witness ==
    /\ running.pc # "idle"
    /\ running.invocations > 0
    /\ Len(system_func.include_components) = 2
    /\ Excluded # {}

\* The positions in the reads of a run call that are reads of the field
\* store
FieldReads(r) ==
    IF r.pc = "idle" THEN {}
    ELSE {k \in DOMAIN r.reads : r.reads[k][1] = DATA_FOLDER}

\* C17: while a run matches, and when it raised while matching, all it
\* has read are listings of the type index; no statement of the matching
\* writes a blob; and a read of the field store is only ever made by the
\* loading of a matched entity.
C17_MatchingReadsTypeIndexOnly ==
    /\ []((\/ running.pc \in {"include", "exclude"}
           \/ running.pc = "raised" /\ running.matched_eids.is_none)
          => \A k \in DOMAIN running.reads :
                running.reads[k][1] = COMPONENT_FOLDER)
    /\ [][(\/ RunBegin
           \/ RunInclude
           \/ \E T \in ComponentNames : RunExclude(T)
           \/ RunMatched) => bucket' = bucket]_vars
    /\ [][Cardinality(FieldReads(running')) > Cardinality(FieldReads(running))
             => \E eid \in EIDs : RunLoad(eid)]_vars

\* A run is past its include loop with an entity matched, while the
\* field store holds fields of that entity's components.
C17_Witness ==
    /\ running.pc = "exclude"
    /\ running.matched_eids.eids # {}
    /\ \E eid \in running.matched_eids.eids :
          \E i \in DOMAIN running.all_entities[eid] :
             \E d \in FieldStore(bucket) :
                d[1] = running.all_entities[eid][i].cid

\* C18: the constructor of a component built from stored data is passed
\* declared fields of the class only, never "_uid" or "_entity", and
\* every declared field that the data holds, with the value it holds.
C18_ConstructorGetsDeclaredFields ==
    last.op = "_create_component_from_data"
        => /\ DOMAIN last.component_values \subseteq FieldsOf(last.component_type)
           /\ PRIMARY_KEY \notin DOMAIN last.component_values
           /\ ENTITY_REFERENCE \notin DOMAIN last.component_values
           /\ \A f \in FieldsOf(last.component_type)
                       \cap DOMAIN last.component_data :
                 /\ f \in DOMAIN last.component_values
                 /\ last.component_values[f] = last.component_data[f]

\* C19: add_entity writes one blob per statement, for each component the
\* forward-index blob before the type-index blob before the field blobs.
\* So in every state, also while an add_entity is in progress and after
\* one was cut short, every triple of the type index is in the forward
\* index; every statement of add_entity writes at most one blob, a
\* type-index blob only for a triple of the forward index and a field
\* blob only for a cid of the type index.
C19_ForwardBeforeTypeBeforeFields ==
    /\ [](TypeIndex(bucket) \subseteq ForwardIndex(bucket))
    /\ [][AddStep =>
            /\ Cardinality(Written(bucket, bucket')) <= 1
            /\ \A n \in Written(bucket, bucket') :
                  /\ n[1] = COMPONENT_FOLDER
                        => <<n[3], n[2], n[4]>> \in ForwardIndex(bucket)
                  /\ n[1] = DATA_FOLDER
                        => \E t \in TypeIndex(bucket) : t[3] = n[2]]_vars

\* A run has matched the entity that an add_entity in progress is
\* writing, and the field store holds no field of the component that the
\* run is about to load.
C19_Witness ==
    /\ adding.pc = "dat"
    /\ running.pc = "load"
    /\ adding.entity.uid \in running.todo
    /\ \E i \in DOMAIN running.matched_entities[adding.entity.uid] :
          LET component == running.matched_entities[adding.entity.uid][i]
          IN  /\ FieldsOf(component.name) # {}
              /\ \A d \in FieldStore(bucket) : d[1] # component.cid
====
